---------------------------- MODULE Spec2Model ----------------------------
(***************************************************************************)
(* The simulated upload/analysis pipeline of the FileUpload component      *)
(* (Frontend/src/components/Sidebar.tsx, lines 104-194) and the part of    *)
(* App (Frontend/src/App.tsx) that mounts it and keeps uploadedFiles.      *)
(*                                                                         *)
(* React applies the updater functions handed to setFiles one at a time,   *)
(* each to the state left by the previous one, so every timer callback is  *)
(* one atomic step on files.  Timers are untimed: an active interval or a  *)
(* pending timeout may fire at any moment.  Math.random() is modelled by   *)
(* sample points of its range; progress is kept in whole percent.          *)
(***************************************************************************)
EXTENDS Integers, Sequences, FiniteSets

\* ------------------------------------------------------------------ bounds
\* Number of simulateFileProcessing calls in one run.
MaxSubmits == 2

\* Math.random() is n / RandScale for n in 0..RandScale-1.
RandScale == 45

\* ------------------------------------------------------- program constants
Full == 100
UploadSpan == 30
AnalysisSpan == 25
IssueSpan == 8
SizeWholeSpan == 5
SizeTenthSpan == 9

Names == {"A.fig", "B.fig"}
Views == {"dashboard", "upload", "compliance", "security", "accessibility"}
Statuses == {"uploading", "analyzing", "completed", "error"}

\* The samples of a draw that includes its upper end, as Math.round or <=
\* would give.
RandomUpTo(n) == {0, n}

\* Sample points of Math.random() * n: the least value, and the largest whole
\* value below n.
RandomBelow(n) == {0, n - 1}

\* The grid of Math.random(), as numerators over RandScale.
Rand == 0..(RandScale - 1)

\* Math.floor(Math.random() * span)
FloorRandom(n, span) == (n * span) \div RandScale

\* The two floored draws of the size label, sampled at both ends.
SizeDraws == {<<0, 0>>, <<SizeWholeSpan - 1, SizeTenthSpan - 1>>}

\* issues?: number -- an optional field is the empty set or a singleton.
Undefined == {}
Some(x) == {x}

Sids == 1..MaxSubmits

VARIABLES
    files,          \* FileUpload's state: the array of UploadedFile records
    fileName,       \* fileName[k]: the argument closed over by the k-th call's timers
    upl,            \* upl[k]: uploadInterval of call k is active
    dly,            \* dly[k]: number of pending setTimeout callbacks of call k
    ana,            \* ana[k]: number of active analysisInterval timers of call k
    det,            \* det[k]: call k belongs to a FileUpload that was unmounted
    uploadedFiles,  \* App's state: the list of uploaded file names
    currentView,    \* App's state: the view shown
    removedIn       \* history: the status record k had when removeFile deleted it

vars == <<files, fileName, upl, dly, ana, det, uploadedFiles, currentView, removedIn>>

\* ------------------------------------------------------------ pure helpers
\* The size label `${floor(r*5+1)}.${floor(r*9)}MB`, kept as its two digits.
SizeLabel(w, t) == [whole |-> w + 1, tenth |-> t]

\* newFile created with issues: 0 instead of no issues field.
NewFileZeroIssues(k, name, w, t) ==
    [sid |-> k, name |-> name, size |-> SizeLabel(w, t),
     status |-> "uploading", progress |-> 0, issues |-> Some(0)]

NewFile(k, name, w, t) ==
    [sid |-> k, name |-> name, size |-> SizeLabel(w, t),
     status |-> "uploading", progress |-> 0, issues |-> Undefined]

\* The callback of prev.map in the upload interval.
UploadReaches(file, name, d) ==
    /\ file.name = name
    /\ file.status = "uploading"
    /\ file.progress + d >= Full

\* The upload callback without the clamp of line 166.
UploadCallbackUnclamped(file, name, d) ==
    IF file.name = name /\ file.status = "uploading"
    THEN [file EXCEPT !.progress = file.progress + d]
    ELSE file

\* The upload callback adding to the progress the record had when the
\* interval was created, as a closure over newFile would.
UploadCallbackStale(file, name, d) ==
    IF file.name = name /\ file.status = "uploading"
    THEN LET newProgress == 0 + d IN
         IF newProgress >= Full
         THEN [file EXCEPT !.status = "uploading", !.progress = Full]
         ELSE [file EXCEPT !.progress = newProgress]
    ELSE file

UploadCallback(file, name, d) ==
    IF file.name = name /\ file.status = "uploading"
    THEN LET newProgress == file.progress + d IN
         IF newProgress >= Full
         THEN [file EXCEPT !.status = "uploading", !.progress = Full]
         ELSE [file EXCEPT !.progress = newProgress]
    ELSE file

\* The delay callback building the record anew instead of spreading it.
DelayCallbackRebuilds(f, name) ==
    IF f.name = name
    THEN [f EXCEPT !.status = "analyzing", !.progress = 0, !.size = SizeLabel(0, 0)]
    ELSE f

\* The callback of prev.map in the setTimeout.
DelayCallback(f, name) ==
    IF f.name = name
    THEN [f EXCEPT !.status = "analyzing", !.progress = 0]
    ELSE f

\* The callback of prev.map in the analysis interval.
AnalysisReaches(f, name, d) ==
    /\ f.name = name
    /\ f.status = "analyzing"
    /\ f.progress + d >= Full

\* The analysis callback storing the raw sum on completion.
AnalysisCallbackUnclamped(f, name, d, i) ==
    IF f.name = name /\ f.status = "analyzing"
    THEN LET newProgress == f.progress + d IN
         IF newProgress >= Full
         THEN [f EXCEPT !.status = "completed", !.progress = newProgress, !.issues = Some(i)]
         ELSE [f EXCEPT !.progress = newProgress]
    ELSE f

\* The analysis callback ending in 'error' when the largest issue count is
\* drawn.
AnalysisCallbackFails(f, name, d, i) ==
    IF f.name = name /\ f.status = "analyzing"
    THEN LET newProgress == f.progress + d IN
         IF newProgress >= Full
         THEN [f EXCEPT !.status = IF i = IssueSpan - 1 THEN "error" ELSE "completed",
                        !.progress = Full, !.issues = Some(i)]
         ELSE [f EXCEPT !.progress = newProgress]
    ELSE f

AnalysisCallback(f, name, d, i) ==
    IF f.name = name /\ f.status = "analyzing"
    THEN LET newProgress == f.progress + d IN
         IF newProgress >= Full
         THEN [f EXCEPT !.status = "completed", !.progress = Full, !.issues = Some(i)]
         ELSE [f EXCEPT !.progress = newProgress]
    ELSE f

\* removeFile deleting the first matching record only.
RemoveFirstOnly(fs, name) ==
    LET hits == {i \in 1..Len(fs) : fs[i].name = name} IN
    IF hits = {} THEN fs
    ELSE LET m == CHOOSE i \in hits : \A j \in hits : i <= j IN
         SubSeq(fs, 1, m - 1) \o SubSeq(fs, m + 1, Len(fs))

\* removeFile written as splice(findIndex(...), 1): with no match the index
\* is -1 and the last record is deleted.
RemoveBySplice(fs, name) ==
    LET hits == {i \in 1..Len(fs) : fs[i].name = name} IN
    IF hits = {} THEN SubSeq(fs, 1, Len(fs) - 1)
    ELSE LET m == CHOOSE i \in hits : \A j \in hits : i <= j IN
         SubSeq(fs, 1, m - 1) \o SubSeq(fs, m + 1, Len(fs))

\* removeFile with the comparison inverted.
RemoveFileInverted(fs, name) == SelectSeq(fs, LAMBDA file : file.name = name)

\* prev.filter(file => file.name !== fileName)
RemoveFile(fs, name) == SelectSeq(fs, LAMBDA file : file.name # name)

\* The positions of the records a timer callback of the given phase rewrites.
Matching(fs, name, status) ==
    {i \in 1..Len(fs) : fs[i].name = name /\ fs[i].status = status}

\* The record created by the k-th call, while the array holds it.
Has(fs, k) == \E i \in 1..Len(fs) : fs[i].sid = k
Rec(fs, k) == fs[CHOOSE i \in 1..Len(fs) : fs[i].sid = k]

\* A random draw is made only for the records the callback rewrites.
Draw(d, i) == IF i \in DOMAIN d THEN d[i] ELSE 0

\* ------------------------------------------------------------------- init
Init ==
    /\ files = <<>>
    /\ fileName = <<>>
    /\ upl = [k \in Sids |-> FALSE]
    /\ dly = [k \in Sids |-> 0]
    /\ ana = [k \in Sids |-> 0]
    /\ det = [k \in Sids |-> FALSE]
    /\ uploadedFiles = <<>>
    /\ currentView = "upload"
    /\ removedIn = [k \in Sids |-> "none"]

\* ---------------------------------------------------------------- actions
\* simulateFileProcessing replacing the listed records of the name instead of
\* appending to them.
SubmitWithReplaces(name, w, t) ==
    /\ currentView = "upload"
    /\ Len(fileName) < MaxSubmits
    /\ LET k == Len(fileName) + 1 IN
       /\ files' = Append(RemoveFile(files, name), NewFile(k, name, w, t))
       /\ fileName' = Append(fileName, name)
       /\ upl' = [upl EXCEPT ![k] = TRUE]
       /\ uploadedFiles' = Append(uploadedFiles, name)
    /\ UNCHANGED <<dly, ana, det, currentView, removedIn>>

\* simulateFileProcessing calling onFileUpload from inside the setFiles
\* updater, which React may run twice.
SubmitWithNotifiesTwice(name, w, t) ==
    /\ currentView = "upload"
    /\ Len(fileName) < MaxSubmits
    /\ LET k == Len(fileName) + 1 IN
       /\ files' = Append(files, NewFile(k, name, w, t))
       /\ fileName' = Append(fileName, name)
       /\ upl' = [upl EXCEPT ![k] = TRUE]
       /\ uploadedFiles' = uploadedFiles \o <<name, name>>
    /\ UNCHANGED <<dly, ana, det, currentView, removedIn>>

\* simulateFileProcessing(fileName), up to the setInterval call, with the two
\* floored draws of the size label given.
SubmitWith(name, w, t) ==
    /\ currentView = "upload"
    /\ Len(fileName) < MaxSubmits
    /\ LET k == Len(fileName) + 1 IN
       /\ files' = Append(files, NewFile(k, name, w, t))
       /\ fileName' = Append(fileName, name)
       /\ upl' = [upl EXCEPT ![k] = TRUE]
       /\ uploadedFiles' = Append(uploadedFiles, name)
    /\ UNCHANGED <<dly, ana, det, currentView, removedIn>>

Submit(name) == \E r \in SizeDraws : SubmitWith(name, r[1], r[2])

\* A firing of uploadInterval that schedules the delay without
\* clearInterval.
UploadStepKeepsInterval(k, inc) ==
    /\ k <= Len(fileName)
    /\ upl[k]
    /\ ~det[k]
    /\ LET name == fileName[k]
           hits == {i \in 1..Len(files) : UploadReaches(files[i], name, Draw(inc, i))}
       IN /\ files' = [i \in 1..Len(files) |->
                            UploadCallback(files[i], name, Draw(inc, i))]
          /\ dly' = [dly EXCEPT ![k] = @ + Cardinality(hits)]
    /\ UNCHANGED <<fileName, upl, ana, det, uploadedFiles, currentView, removedIn>>

\* One firing of uploadInterval of call k; inc[i] is the random increment
\* drawn for files[i].
UploadStep(k, inc) ==
    /\ k <= Len(fileName)
    /\ upl[k]
    /\ ~det[k]
    /\ LET name == fileName[k]
           hits == {i \in 1..Len(files) : UploadReaches(files[i], name, Draw(inc, i))}
       IN /\ files' = [i \in 1..Len(files) |->
                            UploadCallback(files[i], name, Draw(inc, i))]
          /\ upl' = IF hits # {} THEN [upl EXCEPT ![k] = FALSE] ELSE upl
          /\ dly' = [dly EXCEPT ![k] = @ + Cardinality(hits)]
    /\ UNCHANGED <<fileName, ana, det, uploadedFiles, currentView, removedIn>>

UploadTick(k) ==
    /\ k <= Len(fileName)
    /\ \E inc \in [Matching(files, fileName[k], "uploading") -> RandomBelow(UploadSpan)] :
        UploadStep(k, inc)

\* The setTimeout callback of call k.
DelayExpire(k) ==
    /\ k <= Len(fileName)
    /\ dly[k] > 0
    /\ ~det[k]
    /\ files' = [i \in 1..Len(files) |-> DelayCallback(files[i], fileName[k])]
    /\ dly' = [dly EXCEPT ![k] = @ - 1]
    /\ ana' = [ana EXCEPT ![k] = @ + 1]
    /\ UNCHANGED <<fileName, upl, det, uploadedFiles, currentView, removedIn>>

\* One firing of an analysisInterval of call k.
AnalysisStep(k, inc, iss) ==
    /\ k <= Len(fileName)
    /\ ana[k] > 0
    /\ ~det[k]
    /\ LET name == fileName[k]
           hits == {i \in 1..Len(files) : AnalysisReaches(files[i], name, Draw(inc, i))}
       IN /\ files' = [i \in 1..Len(files) |->
                            AnalysisCallback(files[i], name, Draw(inc, i), Draw(iss, i))]
          /\ ana' = IF hits # {} THEN [ana EXCEPT ![k] = @ - 1] ELSE ana
    /\ UNCHANGED <<fileName, upl, dly, det, uploadedFiles, currentView, removedIn>>

AnalysisTick(k) ==
    /\ k <= Len(fileName)
    /\ \E inc \in [Matching(files, fileName[k], "analyzing") -> RandomBelow(AnalysisSpan)] :
        \E iss \in [{i \in DOMAIN inc : AnalysisReaches(files[i], fileName[k], inc[i])}
                        -> RandomBelow(IssueSpan)] :
            AnalysisStep(k, inc, iss)

\* removeFile(file.name), from the X button of a listed row.
Remove(name) ==
    /\ \E i \in 1..Len(files) : files[i].name = name
    /\ files' = RemoveFile(files, name)
    /\ removedIn' = [k \in Sids |->
                        IF Has(files, k) /\ Rec(files, k).name = name
                        THEN Rec(files, k).status
                        ELSE removedIn[k]]
    /\ UNCHANGED <<fileName, upl, dly, ana, det, uploadedFiles, currentView>>

\* onViewChange(v): App renders FileUpload only in the upload view, so leaving
\* it unmounts the component and discards its state; the timers it started
\* keep firing, at the discarded component.
\* A view change that also empties the list of the application, as it would
\* if the list were state of the unmounted component.
ChangeViewDropsUploads(v) ==
    /\ v # currentView
    /\ currentView' = v
    /\ IF currentView = "upload"
       THEN /\ files' = <<>>
            /\ det' = [k \in Sids |-> k <= Len(fileName)]
            /\ uploadedFiles' = <<>>
       ELSE UNCHANGED <<files, det, uploadedFiles>>
    /\ UNCHANGED <<fileName, upl, dly, ana, removedIn>>

ChangeView(v) ==
    /\ v # currentView
    /\ currentView' = v
    /\ IF currentView = "upload"
       THEN /\ files' = <<>>
            /\ det' = [k \in Sids |-> k <= Len(fileName)]
       ELSE UNCHANGED <<files, det>>
    /\ UNCHANGED <<fileName, upl, dly, ana, uploadedFiles, removedIn>>

Next ==
    \/ \E name \in Names : Submit(name)
    \/ \E k \in Sids : UploadTick(k)
    \/ \E k \in Sids : DelayExpire(k)
    \/ \E k \in Sids : AnalysisTick(k)
    \/ \E name \in Names : Remove(name)

Spec == Init /\ [][Next]_vars

\* ------------------------------------------------------------- fairness
\* An active setInterval fires again and again and a pending setTimeout
\* fires; Math.random() is positive infinitely often.  A firing that draws a
\* positive increment for every record it rewrites is therefore always
\* eventually taken while it can change the state.
UploadTickPositive(k) ==
    /\ k <= Len(fileName)
    /\ \E inc \in [Matching(files, fileName[k], "uploading") -> RandomBelow(UploadSpan) \ {0}] :
        UploadStep(k, inc)

AnalysisTickPositive(k) ==
    /\ k <= Len(fileName)
    /\ \E inc \in [Matching(files, fileName[k], "analyzing") -> RandomBelow(AnalysisSpan) \ {0}] :
        \E iss \in [{i \in DOMAIN inc : AnalysisReaches(files[i], fileName[k], inc[i])}
                        -> RandomBelow(IssueSpan)] :
            AnalysisStep(k, inc, iss)

Fairness ==
    \A k \in Sids :
        /\ WF_vars(UploadTickPositive(k))
        /\ WF_vars(DelayExpire(k))
        /\ WF_vars(AnalysisTickPositive(k))

FairSpec == Init /\ [][Next]_vars /\ Fairness

\* ------------------------------------------------- the application shell
\* App starts on the dashboard; FileUpload is mounted on entering the upload
\* view.
\* Submits alone, with the size label drawn over the whole grid of
\* Math.random().
SubmitFine(name) ==
    \E n1, n2 \in Rand :
        SubmitWith(name, FloorRandom(n1, SizeWholeSpan), FloorRandom(n2, SizeTenthSpan))

NextSize == \E name \in Names : SubmitFine(name)

SpecSize == Init /\ [][NextSize]_vars

InitApp ==
    /\ files = <<>>
    /\ fileName = <<>>
    /\ upl = [k \in Sids |-> FALSE]
    /\ dly = [k \in Sids |-> 0]
    /\ ana = [k \in Sids |-> 0]
    /\ det = [k \in Sids |-> FALSE]
    /\ uploadedFiles = <<>>
    /\ currentView = "dashboard"
    /\ removedIn = [k \in Sids |-> "none"]

NextApp ==
    \/ \E name \in Names : Submit(name)
    \/ \E k \in Sids : UploadTick(k)
    \/ \E k \in Sids : DelayExpire(k)
    \/ \E k \in Sids : AnalysisTick(k)
    \/ \E name \in Names : Remove(name)
    \/ \E v \in Views : ChangeView(v)

SpecApp == InitApp /\ [][NextApp]_vars

\* ---------------------------------------------------- rendering of a row
\* <Badge variant=...>label</Badge>; count is the number shown in the label,
\* if any.
Badge(variant, label, count) ==
    [kind |-> "badge", variant |-> variant, label |-> label, count |-> count]

\* A number React renders as bare text.
BareNumber(n) ==
    [kind |-> "text", variant |-> "none", label |-> "", count |-> Some(n)]

\* {file.issues && file.issues > 0 && <Badge ...>}: the && chain yields its
\* first falsy operand; React renders undefined and false as nothing and the
\* number 0 as the text 0.
IssueBadge(file) ==
    IF file.issues = Undefined
    THEN <<>>
    ELSE LET n == CHOOSE x \in file.issues : TRUE IN
         IF n = 0 THEN <<BareNumber(0)>>
         ELSE IF n > 0 THEN <<Badge("destructive", "issues", Some(n))>>
         ELSE <<>>

\* getStatusBadge(file): the elements rendered, in order.
GetStatusBadge(file) ==
    CASE file.status = "uploading" -> <<Badge("outline", "Uploading", Undefined)>>
      [] file.status = "analyzing" -> <<Badge("outline", "Analyzing", Undefined)>>
      [] file.status = "completed" ->
            <<Badge("secondary", "Complete", Undefined)>> \o IssueBadge(file)
      [] file.status = "error" -> <<Badge("destructive", "Error", Undefined)>>
      [] OTHER -> <<>>

\* The progress block of a row is rendered.
ShowsProgress(file) == file.status = "uploading" \/ file.status = "analyzing"

\* The "Uploaded Files" card of Dashboard: one row per entry, each with the
\* badge Processing; the card is rendered only for a non-empty list.
DashboardRows(uploaded) ==
    [i \in 1..Len(uploaded) |-> [name |-> uploaded[i], badge |-> "Processing"]]

\* ------------------------------------------------------------ the reports
\* The literal dataset of AccessibilityReport: per category its score and the
\* severities of its issues, in order.
accessibilityCategories ==
    << [id |-> "visual",    score |-> 72, issues |-> <<"high", "medium", "medium">>],
       [id |-> "motor",     score |-> 85, issues |-> <<"medium">>],
       [id |-> "cognitive", score |-> 80, issues |-> <<"high", "medium">>],
       [id |-> "keyboard",  score |-> 78, issues |-> <<"high", "medium">>] >>

\* The dataset of SecurityFindings with the count of the first category left
\* at an older value.
securityCategoriesStale ==
    << [id |-> "data-protection", count |-> 4, critical |-> 1,
        findings |-> <<"critical", "high", "medium">>],
       [id |-> "authentication",  count |-> 2, critical |-> 0,
        findings |-> <<"high", "medium">>],
       [id |-> "privacy",         count |-> 1, critical |-> 0,
        findings |-> <<"medium">>] >>

\* The literal dataset of SecurityFindings: per category the count and
\* critical fields and the severities of its findings, in order.
securityCategories ==
    << [id |-> "data-protection", count |-> 3, critical |-> 1,
        findings |-> <<"critical", "high", "medium">>],
       [id |-> "authentication",  count |-> 2, critical |-> 0,
        findings |-> <<"high", "medium">>],
       [id |-> "privacy",         count |-> 1, critical |-> 0,
        findings |-> <<"medium">>] >>

\* array.reduce((sum, x) => sum + x, 0) over a sequence of numbers.
RECURSIVE Reduce(_)
Reduce(s) == IF s = <<>> THEN 0 ELSE Reduce(SubSeq(s, 1, Len(s) - 1)) + s[Len(s)]

\* array.filter(x => x === v).length
FilterLength(s, v) == Cardinality({i \in 1..Len(s) : s[i] = v})

\* Math.round(num / den) for num >= 0, den > 0: halves round up.
MathRound(num, den) == (2 * num + den) \div (2 * den)

overallScore ==
    MathRound(Reduce([c \in 1..Len(accessibilityCategories) |->
                          accessibilityCategories[c].score]),
              Len(accessibilityCategories))

totalIssues ==
    Reduce([c \in 1..Len(accessibilityCategories) |->
                Len(accessibilityCategories[c].issues)])

highPriorityIssues ==
    Reduce([c \in 1..Len(accessibilityCategories) |->
                FilterLength(accessibilityCategories[c].issues, "high")])

totalFindings ==
    Reduce([c \in 1..Len(securityCategories) |-> securityCategories[c].count])

totalCritical ==
    Reduce([c \in 1..Len(securityCategories) |-> securityCategories[c].critical])

\* The severities an issue or finding may carry.
Severities == {"low", "medium", "high", "critical"}

\* getSeverityColor of ComplianceReport: a switch with no case for critical.
ComplianceGetSeverityColor(severity) ==
    CASE severity = "high" -> "destructive"
      [] severity = "medium" -> "default"
      [] severity = "low" -> "secondary"
      [] OTHER -> "secondary"

\* getSeverityColor of SecurityFindings.
SecurityGetSeverityColor(severity) ==
    CASE severity = "critical" -> "destructive"
      [] severity = "high" -> "destructive"
      [] severity = "medium" -> "default"
      [] severity = "low" -> "secondary"
      [] OTHER -> "secondary"

\* getSeverityColor of AccessibilityReport: a switch with no case for
\* critical.
AccessibilityGetSeverityColor(severity) ==
    CASE severity = "high" -> "destructive"
      [] severity = "medium" -> "default"
      [] severity = "low" -> "secondary"
      [] OTHER -> "secondary"

\* ------------------------------------------------------ claim vocabulary
Submitted(k) == k <= Len(fileName)

\* Record k was deleted by removeFile.
Removed(k) == removedIn[k] # "none"

\* No timer started by call k is active or pending.
Idle(k) == ~upl[k] /\ dly[k] = 0 /\ ana[k] = 0

NoRecord(fs, name) == \A i \in 1..Len(fs) : fs[i].name # name

\* fileName[k] was handed to simulateFileProcessing by call k only.
Unique(k) ==
    /\ Submitted(k)
    /\ \A j \in 1..Len(fileName) : fileName[j] = fileName[k] => j = k

Done(k) ==
    /\ Has(files, k)
    /\ Rec(files, k).status = "completed"
    /\ Rec(files, k).progress = Full
    /\ \E n \in 0..(IssueSpan - 1) : Rec(files, k).issues = Some(n)

PhaseStep(a, b) ==
    \/ a = b
    \/ a = "uploading" /\ b = "analyzing"
    \/ a = "analyzing" /\ b = "completed"

IssuesWellFormed(f) ==
    IF f.status = "completed"
    THEN \E n \in 0..(IssueSpan - 1) : f.issues = Some(n)
    ELSE f.issues = Undefined

\* ------------------------------------------------------------------ C1
\* C1: in every step each record keeps its phase or moves Uploading ->
\* Analyzing or Analyzing -> Completed; it never skips Analyzing and never
\* moves back.
C1_PhaseOrder ==
    [][\A k \in Sids :
          Has(files, k) /\ Has(files', k)
              => PhaseStep(Rec(files, k).status, Rec(files', k).status)]_vars

\* ------------------------------------------------------------------ C2
\* C2: issueCount is absent while a record is Uploading or Analyzing, is an
\* integer in 0..7 from the step that makes it Completed, and no later step
\* changes it.
C2_IssueCount ==
    [][\A k \in Sids :
          /\ Has(files', k) => IssuesWellFormed(Rec(files', k))
          /\ Has(files, k) /\ Has(files', k) /\ Rec(files, k).status = "completed"
                => Rec(files', k).issues = Rec(files, k).issues]_vars

\* ------------------------------------------------------------------ C3
\* C3: a firing of a timer started by call k changes the progress and phase
\* of no record other than the one call k created, also when another record
\* carries the same identifier.
C3_OwnTimersOnly ==
    [][\A k \in Sids :
          (UploadTick(k) \/ DelayExpire(k) \/ AnalysisTick(k))
              => \A j \in Sids \ {k} :
                    Has(files, j)
                        => /\ Has(files', j)
                           /\ Rec(files', j).status = Rec(files, j).status
                           /\ Rec(files', j).progress = Rec(files, j).progress]_vars

\* ------------------------------------------------------------------ C4
\* C4: once a record has been removed, every timer started for it (upload
\* ticker, pending delay, analysis ticker) is eventually inactive for good.
C4_TimersStop ==
    \A k \in Sids : [](Removed(k) => <>[]Idle(k))

\* ------------------------------------------------------------------ C5
\* C5: remove(id) leaves no record with identifier id, and as long as id is
\* not submitted again no step creates one: the mapping holds no record for
\* id in any later state.
C5_NoUpdateAfterRemove ==
    [][\A name \in Names :
          (Remove(name) \/ (NoRecord(files, name) /\ ~Submit(name)))
              => NoRecord(files', name)]_vars

\* An identifier was removed and its delay has expired since: its analysis
\* ticker fires with no record to change.
C5_Witness ==
    \E k \in Sids :
        /\ Submitted(k)
        /\ Removed(k)
        /\ NoRecord(files, fileName[k])
        /\ ana[k] > 0

\* ------------------------------------------------------------------ C6
\* C6 as stated, for a record whose identifier was submitted once: whenever
\* the record changes phase, the progress it had in the state before the
\* change is exactly 100.
C6_LastValueIsFull ==
    [][\A k \in Sids :
          /\ Unique(k)
          /\ Has(files, k)
          /\ Has(files', k)
          /\ Rec(files', k).status # Rec(files, k).status
          => Rec(files, k).progress = Full]_vars

\* C6 as amended: the value 100 is stored by the step that ends a ticker.  The
\* firing that stops an upload ticker leaves a record of its identifier
\* Uploading with progress exactly 100; the step that makes a record Completed
\* takes it from a progress below 100 to exactly 100 in that same step.
C6_FullAtTickerEnd ==
    [][/\ \A k \in Sids :
             upl[k] /\ ~upl'[k]
                 => \E i \in 1..Len(files') :
                       /\ files'[i].name = fileName[k]
                       /\ files'[i].status = "uploading"
                       /\ files'[i].progress = Full
       /\ \A k \in Sids :
             /\ Has(files, k)
             /\ Has(files', k)
             /\ Rec(files, k).status = "analyzing"
             /\ Rec(files', k).status = "completed"
             => /\ Rec(files, k).progress < Full
                /\ Rec(files', k).progress = Full]_vars

\* A record has gone through both hand-overs and its timers have ended.
C6_Witness ==
    \E k \in Sids : Done(k) /\ Idle(k) /\ Unique(k)

\* ------------------------------------------------------------------ C7
\* C7: as long as a record's phase does not change, its progress does not
\* decrease from one state to the next.
C7_ProgressMonotone ==
    [][\A k \in Sids :
          /\ Has(files, k)
          /\ Has(files', k)
          /\ Rec(files', k).status = Rec(files, k).status
          => Rec(files', k).progress >= Rec(files, k).progress]_vars

\* ------------------------------------------------------------------ C8
\* C8: under fair timers every record that is never removed eventually is
\* Completed with progress 100 and an issueCount in 0..7.
C8_EventuallyCompleted ==
    \A k \in Sids : [](Has(files, k) => <>(Done(k) \/ Removed(k)))

\* ------------------------------------------------------------------ C9
\* C9: a record whose identifier is submitted once and is not removed
\* eventually is Completed, whatever the timers of the other identifier do;
\* and removing an identifier that has a record in Analyzing leaves every
\* record of another identifier in place and unchanged.
C9_Independent ==
    /\ \A k \in Sids :
          [](Has(files, k) => <>(Done(k) \/ Removed(k) \/ ~Unique(k)))
    /\ [][\A name \in Names :
             /\ Remove(name)
             /\ \E i \in 1..Len(files) :
                   files[i].name = name /\ files[i].status = "analyzing"
             => \A k \in Sids :
                   Has(files, k) /\ Rec(files, k).name # name
                       => Has(files', k) /\ Rec(files', k) = Rec(files, k)]_vars

\* One identifier was removed while Analyzing and the record of the other
\* identifier, submitted once, has completed all the same.
C9_Witness ==
    \E a, b \in Sids :
        /\ removedIn[a] = "analyzing"
        /\ Submitted(b)
        /\ fileName[b] # fileName[a]
        /\ Unique(b)
        /\ Done(b)

\* ----------------------------------------------------------------- C10
\* C10: a record leaves the mapping only in a remove of its identifier.
C10_OnlyRemoveDeletes ==
    [][\A k \in Sids :
          Has(files, k) /\ ~Has(files', k) => Remove(Rec(files, k).name)]_vars

\* ----------------------------------------------------------------- C11
\* C11: every submit(id) appends one record that, in the state right after
\* the submit, has identifier id, phase Uploading, progress 0 and no
\* issueCount, whatever records the mapping already holds.
C11_SubmitStartsFresh ==
    [][\A name \in Names :
          Submit(name)
              => /\ Len(files') = Len(files) + 1
                 /\ files'[Len(files')].name = name
                 /\ files'[Len(files')].status = "uploading"
                 /\ files'[Len(files')].progress = 0
                 /\ files'[Len(files')].issues = Undefined]_vars

\* An identifier was submitted again while its first record is Completed:
\* the new record is fresh, untouched by any timer.
C11_Witness ==
    /\ Len(files) = 2
    /\ files[1].name = files[2].name
    /\ files[1].status = "completed"
    /\ files[2].status = "uploading"
    /\ files[2].progress = 0
    /\ files[2].issues = Undefined
    /\ upl[files[2].sid]

\* ----------------------------------------------------------------- C12
\* C12: removeFile(id) applied to a mapping that holds no record of id
\* returns the same mapping (same records, same fields, same order), and
\* applying removeFile(id) twice gives what applying it once gives.
C12_RemoveIdempotent ==
    \A name \in Names :
        /\ NoRecord(files, name) => RemoveFile(files, name) = files
        /\ RemoveFile(RemoveFile(files, name), name) = RemoveFile(files, name)

\* The mapping holds two records of one identifier and none of the other:
\* removing the other is the no-op case, removing the first the repeated one.
C12_Witness ==
    /\ Len(files) = 2
    /\ files[1].name = files[2].name
    /\ \E name \in Names : NoRecord(files, name)

\* ----------------------------------------------------------------- C13
\* C13: removeFile(id) deletes every record whose identifier is id and no
\* other record: the records of other identifiers are all kept, in their
\* order, with name, sizeLabel, phase, progress and issueCount unchanged.
C13_RemoveFrame ==
    \A name \in Names :
        LET kept == RemoveFile(files, name) IN
        /\ NoRecord(kept, name)
        /\ \A k \in Sids :
              Has(files, k) /\ Rec(files, k).name # name
                  => Has(kept, k) /\ Rec(kept, k) = Rec(files, k)
        /\ Len(kept) = Cardinality({i \in 1..Len(files) : files[i].name # name})
        /\ \A i, j \in 1..Len(kept) :
              i < j => \E a, b \in 1..Len(files) :
                          a < b /\ files[a] = kept[i] /\ files[b] = kept[j]

\* Records of both identifiers are listed, so a remove has something to
\* delete and something to keep.
C13_Witness ==
    /\ Len(files) = 2
    /\ files[1].name # files[2].name
    /\ files[1].status = "analyzing"
    /\ files[2].status = "completed"

\* ----------------------------------------------------------------- C14
\* C14: the progress of every record stays within 0..100 in every reachable
\* state; an increment that would carry it past 100 leaves it at exactly 100.
C14_ProgressBounded ==
    \A i \in 1..Len(files) :
        /\ files[i].progress >= 0
        /\ files[i].progress <= Full

\* Both clamps have acted: no sum of the drawn increments equals 100, so a
\* record at 100 was carried there by an increment that overshot.
C14_Witness ==
    /\ Len(files) = 2
    /\ files[1].status = "completed"
    /\ files[1].progress = Full
    /\ files[2].status = "uploading"
    /\ files[2].progress = Full
    /\ \A n \in 0..Full : n * (UploadSpan - 1) # Full /\ n * (AnalysisSpan - 1) # Full

\* ----------------------------------------------------------------- C15
\* C15: the sizeLabel of a record is assigned by the submit that creates it
\* and is changed by no later step, whatever phase the record goes through.
C15_SizeFixed ==
    [][\A k \in Sids :
          Has(files, k) /\ Has(files', k)
              => Rec(files', k).size = Rec(files, k).size]_vars

\* Two records of one identifier carry different labels after the second one
\* was taken through the reset and both completed.
C15_Witness ==
    /\ Len(files) = 2
    /\ files[1].name = files[2].name
    /\ files[1].size # files[2].size
    /\ files[1].status = "completed"
    /\ files[2].status = "completed"
    /\ \A k \in Sids : Idle(k)

\* ----------------------------------------------------------------- C16
\* C16: the sizeLabel assigned by submit is X.YMB with X in 1..5 and Y in
\* 0..9, and every value from 1.0 up to and including 5.9 is a possible
\* outcome of a submit.
C16_SizeRange ==
    /\ \A i \in 1..Len(files) :
          /\ files[i].size.whole \in 1..5
          /\ files[i].size.tenth \in 0..9
    /\ Len(fileName) < MaxSubmits
          => \A x \in 1..5, y \in 0..9 :
                \E n1, n2 \in Rand :
                    NewFile(Len(fileName) + 1, "A.fig",
                            FloorRandom(n1, SizeWholeSpan),
                            FloorRandom(n2, SizeTenthSpan)).size
                        = [whole |-> x, tenth |-> y]

\* ----------------------------------------------------------------- C17
\* C17: no reachable state contains a record whose status is 'error'; the
\* only statuses a record ever has are uploading, analyzing and completed.
C17_NoErrorStatus ==
    \A i \in 1..Len(files) :
        /\ files[i].status # "error"
        /\ files[i].status \in {"uploading", "analyzing", "completed"}

\* All three statuses have been taken: one record completed, and a second
\* one of the same name is under analysis after the reset.
C17_Witness ==
    /\ Len(files) = 2
    /\ files[1].status = "completed"
    /\ files[1].issues # Undefined
    /\ files[2].status = "analyzing"
    /\ files[2].progress > 0
    /\ files[1].name = files[2].name

\* ----------------------------------------------------------------- C18
\* C18 as stated: in every reachable state no two records of the mapping
\* have the same identifier.
C18_IdentifierUnique ==
    \A i, j \in 1..Len(files) :
        i # j => files[i].name # files[j].name

\* C18 amended: identifiers are not unique per record.  Every submit appends
\* one record carrying the submitted identifier, also when records of that
\* identifier are listed, so the mapping holds one record of an identifier
\* for each submit of it that no remove has undone.
C18_OneRecordPerSubmit ==
    \A name \in Names :
        Cardinality({i \in 1..Len(files) : files[i].name = name})
            = Cardinality({k \in 1..Len(fileName) :
                              fileName[k] = name /\ ~Removed(k)})

\* One identifier submitted twice: both records are listed.
C18_Witness ==
    /\ Len(files) = 2
    /\ files[1].name = files[2].name
    /\ files[1].sid # files[2].sid
    /\ ~Removed(1)
    /\ ~Removed(2)

\* ----------------------------------------------------------------- C19
\* C19: hand-over from upload to analysis.  When an upload tick brings a
\* record to 100, that record's upload ticker is stopped in that step and its
\* delay is scheduled; the record then stays uploading at 100, changed by no
\* tick, until its delay expires; the delay-expiry step sets status analyzing
\* and progress 0 together; and an analysis ticker is started only in the
\* delay-expiry step of its call, after the upload ticker of that call
\* stopped.
C19_HandOver ==
    [][\A k \in Sids :
          /\ Has(files, k) /\ Has(files', k)
                => LET f == Rec(files, k)
                       g == Rec(files', k)
                   IN
                   /\ ( /\ f.status = "uploading" /\ f.progress < Full
                        /\ g.status = "uploading" /\ g.progress = Full )
                         => upl[k] /\ ~upl'[k] /\ dly'[k] = dly[k] + 1
                   /\ ( f.status = "uploading" /\ f.progress = Full /\ g # f )
                         => /\ dly'[k] = dly[k] - 1
                            /\ g.status = "analyzing"
                            /\ g.progress = 0
          /\ ana'[k] > ana[k]
                => ~upl[k] /\ dly'[k] = dly[k] - 1 /\ ana'[k] = ana[k] + 1]_vars

\* ----------------------------------------------------------------- C20
\* C20: no lost update.  Every tick computes the new progress of each record
\* it advances from the progress that record has in the state the tick fires
\* in, which is the value left by the latest earlier step on the record,
\* whatever ticks of other records, submits or removes came in between; a
\* tick changes nothing else of the mapping.
C20_NoLostUpdate ==
    [][\A k \in Sids :
          /\ UploadTick(k)
                => /\ Len(files') = Len(files)
                   /\ \A i \in 1..Len(files) :
                         IF files[i].name = fileName[k] /\ files[i].status = "uploading"
                         THEN \E d \in RandomBelow(UploadSpan) :
                                 files'[i].progress
                                     = IF files[i].progress + d >= Full
                                       THEN Full
                                       ELSE files[i].progress + d
                         ELSE files'[i] = files[i]
          /\ AnalysisTick(k)
                => /\ Len(files') = Len(files)
                   /\ \A i \in 1..Len(files) :
                         IF files[i].name = fileName[k] /\ files[i].status = "analyzing"
                         THEN \E d \in RandomBelow(AnalysisSpan) :
                                 files'[i].progress
                                     = IF files[i].progress + d >= Full
                                       THEN Full
                                       ELSE files[i].progress + d
                         ELSE files'[i] = files[i]]_vars

\* Two records of different names have each accumulated two increments, one
\* of them across the upload of the other and across its own reset.
C20_Witness ==
    /\ Len(files) = 2
    /\ files[1].name # files[2].name
    /\ files[1].status = "analyzing"
    /\ files[1].progress = 2 * (AnalysisSpan - 1)
    /\ files[2].status = "uploading"
    /\ files[2].progress = 2 * (UploadSpan - 1)

\* ----------------------------------------------------------------- C21
\* C21: each submit of an identifier appends exactly one record to the
\* mapping and exactly one entry, equal to the identifier, to the
\* application's uploadedFiles, both in the submit step itself: the earlier
\* records and entries are kept, and the new record has not been ticked.
C21_OneNotification ==
    [][\A name \in Names :
          Submit(name)
              => /\ Len(files') = Len(files) + 1
                 /\ SubSeq(files', 1, Len(files)) = files
                 /\ files'[Len(files')].name = name
                 /\ files'[Len(files')].sid = Len(fileName')
                 /\ uploadedFiles' = Append(uploadedFiles, name)
                 /\ upl'[Len(fileName')] /\ ~upl[Len(fileName')]
                 /\ dly' = dly /\ ana' = ana]_vars

\* Two submits were made in two mountings of the upload view: the list of
\* the application has both entries, the mapping the second record only,
\* not yet ticked.
C21_Witness ==
    /\ uploadedFiles = <<"A.fig", "B.fig">>
    /\ Len(files) = 1
    /\ files[1].name = "B.fig"
    /\ files[1].progress = 0
    /\ files[1].status = "uploading"
    /\ det[1] /\ ~det[2]
    /\ currentView = "upload"

\* ----------------------------------------------------------------- C22
\* C22: a tick advances a record by its draw and by no more.  An upload tick
\* leaves every uploading record uploading and raises its progress by less
\* than 30, storing 100 only when the sum reaches it; an analysis tick raises
\* the progress of every analyzing record by less than 25 and makes it
\* completed exactly when it stores 100.
C22_IncrementRange ==
    [][\A k \in Sids :
          /\ UploadTick(k)
                => \A i \in 1..Len(files) :
                      files[i].status = "uploading"
                          => /\ files'[i].status = "uploading"
                             /\ files'[i].progress - files[i].progress >= 0
                             /\ files'[i].progress - files[i].progress < 30
          /\ AnalysisTick(k)
                => \A i \in 1..Len(files) :
                      files[i].status = "analyzing"
                          => /\ files'[i].progress - files[i].progress >= 0
                             /\ files'[i].progress - files[i].progress < 25
                             /\ files'[i].status
                                   = IF files'[i].progress = Full
                                     THEN "completed" ELSE "analyzing"]_vars

\* One record has taken the largest upload draw once, the other the largest
\* analysis draw once.
C22_Witness ==
    /\ Len(files) = 2
    /\ files[1].status = "analyzing"
    /\ files[1].progress = AnalysisSpan - 1
    /\ files[2].status = "uploading"
    /\ files[2].progress = UploadSpan - 1

\* ----------------------------------------------------------------- C23
\* C23: every completed record is rendered with a badge that carries its
\* issue count, whatever the count is, 0 included; a record that is uploading
\* or analyzing is rendered with the progress block and with no element
\* carrying an issue count.
C23_BadgeCarriesIssueCount ==
    \A i \in 1..Len(files) :
        LET shown == GetStatusBadge(files[i]) IN
        /\ files[i].status = "completed"
              => /\ files[i].issues # Undefined
                 /\ \E j \in 1..Len(shown) :
                       /\ shown[j].kind = "badge"
                       /\ shown[j].count = files[i].issues
        /\ files[i].status \in {"uploading", "analyzing"}
              => /\ ShowsProgress(files[i])
                 /\ \A j \in 1..Len(shown) : shown[j].count = Undefined

\* ----------------------------------------------------------------- C24
\* C24: the summary counters of a report equal the aggregates of its
\* dataset.  In the accessibility report overallScore is the integer nearest
\* to the mean of the category scores, totalIssues the number of issues of
\* all categories and highPriorityIssues the number of issues of severity
\* high; in the security report totalFindings is the number of findings
\* listed in all categories and totalCritical the number of findings of
\* severity critical.
C24_SummaryCounters ==
    /\ currentView = "accessibility"
          => LET cats == accessibilityCategories
                 n == Len(cats)
                 total == Reduce([c \in 1..n |-> cats[c].score])
                 listed == UNION {{<<c, i>> : i \in 1..Len(cats[c].issues)} : c \in 1..n}
             IN
             /\ 2 * n * overallScore - n <= 2 * total
             /\ 2 * total < 2 * n * overallScore + n
             /\ totalIssues = Cardinality(listed)
             /\ highPriorityIssues
                   = Cardinality({p \in listed : cats[p[1]].issues[p[2]] = "high"})
    /\ currentView = "security"
          => LET cats == securityCategories
                 n == Len(cats)
                 listed == UNION {{<<c, i>> : i \in 1..Len(cats[c].findings)} : c \in 1..n}
             IN
             /\ totalFindings = Cardinality(listed)
             /\ totalCritical
                   = Cardinality({p \in listed : cats[p[1]].findings[p[2]] = "critical"})

\* The security report is shown after an upload; its counters are 6 findings
\* of which 1 critical.
C24_Witness ==
    /\ currentView = "security"
    /\ Len(uploadedFiles) = 1
    /\ totalFindings = 6
    /\ totalCritical = 1
    /\ overallScore = 79

\* ----------------------------------------------------------------- C25
\* C25: a record submitted under an identifier whose earlier record was
\* removed is driven by the timers of its own submit only: no firing of an
\* upload ticker, a delay or an analysis ticker left over from the removed
\* record advances it, moves it to analyzing or resets it.
C25_OwnTimersAfterRemove ==
    [][\A j, k \in Sids :
          ( /\ Submitted(j) /\ Submitted(k) /\ j < k
            /\ fileName[j] = fileName[k]
            /\ Removed(j)
            /\ Has(files, k) /\ Has(files', k)
            /\ UploadTick(j) \/ DelayExpire(j) \/ AnalysisTick(j) )
              => Rec(files', k) = Rec(files, k)]_vars

\* ----------------------------------------------------------------- C26
\* C26: no record is stuck.  In every reachable state every uploading record
\* has an active upload ticker or a pending delay that acts on it, and every
\* analyzing record has an active analysis ticker that acts on it.
C26_NoRecordStuck ==
    \A i \in 1..Len(files) :
        /\ files[i].status = "uploading"
              => \E k \in 1..Len(fileName) :
                    /\ fileName[k] = files[i].name
                    /\ ~det[k]
                    /\ upl[k] \/ dly[k] > 0
        /\ files[i].status = "analyzing"
              => \E k \in 1..Len(fileName) :
                    /\ fileName[k] = files[i].name
                    /\ ~det[k]
                    /\ ana[k] > 0

\* ----------------------------------------------------------------- C27
\* C27: of the timers of a call whose identifier was submitted once, at most
\* one is active at any time: the upload ticker, one pending delay or one
\* analysis ticker; and its analysis ticker is started only by the expiry of
\* its delay, after its upload ticker was stopped.
C27_OneTimerActive ==
    \A k \in Sids :
        Unique(k)
            => /\ (IF upl[k] THEN 1 ELSE 0) + dly[k] + ana[k] <= 1
               /\ ana[k] > 0 => ~upl[k] /\ dly[k] = 0
               /\ dly[k] > 0 => ~upl[k]

\* The record of a call with a unique identifier is under analysis, driven by
\* the analysis ticker alone, next to a record of another name still
\* uploading.
C27_Witness ==
    /\ Len(files) = 2
    /\ Unique(1) /\ Unique(2)
    /\ files[1].status = "analyzing"
    /\ files[1].progress > 0
    /\ ~upl[1] /\ dly[1] = 0 /\ ana[1] = 1
    /\ upl[2] /\ dly[2] = 0 /\ ana[2] = 0

\* ----------------------------------------------------------------- C28
\* C28: quiescence.  A completed record of an identifier submitted once has
\* no active timer, its analysis ticker having been stopped by the step that
\* completed it; and in a state where every submitted record is listed and
\* completed, none having been removed, no timer of any call is active or
\* pending and no timer step is possible.
C28_Quiescence ==
    /\ \A k \in Sids :
          Unique(k) /\ Has(files, k) /\ Rec(files, k).status = "completed"
              => Idle(k)
    /\ ( /\ Len(fileName) > 0
         /\ \A k \in 1..Len(fileName) :
               Has(files, k) /\ Rec(files, k).status = "completed" /\ ~Removed(k) )
          => /\ \A k \in Sids : Idle(k)
             /\ ~ENABLED (\E k \in Sids :
                             UploadTick(k) \/ DelayExpire(k) \/ AnalysisTick(k))

\* ----------------------------------------------------------------- C29
\* C29: the uploadedFiles list of the application is append-only.  Every
\* submit appends its identifier and no other step changes the list, so the
\* list is the sequence of all identifiers ever submitted; every identifier
\* of a listed record occurs in it; and the dashboard shows one row with the
\* badge Processing for each entry, also for records that were removed or
\* have completed.
C29_UploadedAppendOnly ==
    /\ [](/\ Len(uploadedFiles) = Len(fileName)
          /\ uploadedFiles = fileName
          /\ \A i \in 1..Len(files) :
                \E j \in 1..Len(uploadedFiles) : uploadedFiles[j] = files[i].name
          /\ currentView = "dashboard"
                => LET rows == DashboardRows(uploadedFiles) IN
                   /\ Len(rows) = Len(fileName)
                   /\ \A k \in 1..Len(fileName) :
                         rows[k].name = fileName[k] /\ rows[k].badge = "Processing")
    /\ [][IF \E name \in Names : Submit(name)
          THEN \E name \in Names : uploadedFiles' = Append(uploadedFiles, name)
          ELSE uploadedFiles' = uploadedFiles]_vars

\* The dashboard is shown after two submits, one of whose records was
\* removed and the other completed before the upload view was left: both
\* entries are still listed.
C29_Witness ==
    /\ currentView = "dashboard"
    /\ Len(uploadedFiles) = 2
    /\ removedIn[1] # "none"
    /\ removedIn[2] = "none"
    /\ files = <<>>
    /\ Idle(2)
    /\ DashboardRows(uploadedFiles)[1].badge = "Processing"

\* ----------------------------------------------------------------- C30
\* C30: whenever a report is shown, the severity-to-variant mappings of the
\* compliance, security and accessibility reports agree on every severity:
\* each maps critical and high to destructive, medium to default and low to
\* secondary.
C30_SeverityMappingsAgree ==
    currentView \in {"compliance", "security", "accessibility"}
        => \A severity \in Severities :
              LET expected ==
                      CASE severity \in {"critical", "high"} -> "destructive"
                        [] severity = "medium" -> "default"
                        [] severity = "low" -> "secondary"
              IN
              /\ ComplianceGetSeverityColor(severity) = expected
              /\ SecurityGetSeverityColor(severity) = expected
              /\ AccessibilityGetSeverityColor(severity) = expected
=============================================================================
